---- MODULE Spec2Model ----
(***************************************************************************)
(* World of Bits (src/src/main.ts): a grid of cells over the map, a sparse *)
(* override store (cellContents) on top of a deterministic spawn function, *)
(* a player that holds at most one token, and two interchangeable position *)
(* sources (direction buttons, geolocation watch).                         *)
(*                                                                         *)
(* Positions are pairs <<lat, lng>> of integers counted in position units; *)
(* a tile is TILE_DEGREES units wide.  The modelled window of the world is *)
(* translated so that the starting cell lies next to the origin and the    *)
(* longitude of the start is negative, as it is for the real start.        *)
(***************************************************************************)
EXTENDS Integers, FiniteSets, Sequences, TLC

\* ---------------- bounds of the model ----------------
Roam == 1          \* the player roams over the cells -Roam..0 of each axis
Resolution == 2    \* position units per tile

\* ---------------- program constants ----------------
WIN_VALUE == 256
TILE_DEGREES == Resolution
VISIBLE_RANGE == 20
INTERACTION_RANGE == 3
INITIAL_TOKEN_PROBABILITY == 20   \* 0.2, in hundredths

NULL == 0          \* Token | null : null; a token is its value (> 0)
UNDEFINED == -1    \* loadCellMemento: no memento recorded

\* the cells of the world a click is delivered to: two far corners, each
\* 3 or 4 cells away on either axis from the cells the player roams over,
\* and three cells next to the start
World == {<<-4, -4>>, <<3, 3>>, <<-1, -1>>, <<0, -1>>, <<-1, 0>>}
MinPos == (0 - Roam) * TILE_DEGREES
MaxPos == TILE_DEGREES - 1
Positions == (MinPos..MaxPos) \X (MinPos..MaxPos)
StartLatLng == <<0, -1>>
\* the positions the geolocation feed delivers: one in each cell the player
\* roams over, on and off the lower edges of the tile
GeoFeed == {<<MinPos, MinPos>>, <<MinPos + 1, MaxPos>>, <<MaxPos, MinPos + 1>>,
            <<0, 0>>}
Modes == {"buttons", "geolocation"}
\* values of the URL query parameter "movement" and of the stored mode
\* ("" when absent)
Params == {"", "buttons", "geolocation"}

VARIABLES
  playerToken,    \* held token (NULL or value)
  cellContents,   \* Map<cellKey, Token | null>: function on the recorded keys
  playerLatLng,   \* tracked player location
  movement,       \* active MovementFacade: [kind, pos, watchId]
  hasGeo,         \* navigator.geolocation is available on this platform
  watching,       \* a geolocation watch is registered with the platform
  storedMode,     \* localStorage["movementMode"] ("" when absent)
  statusPanel,    \* statusPanelDiv.innerHTML, by message class
  inventory,      \* playerInventory display (NULL for "Empty")
  gameWon,        \* gameStatus carries the "win" class
  gridLayer,      \* drawn rectangles: cell -> [token, isNearby]
  consoleWarned,  \* console.warn has logged a geolocation error
  pos64,          \* the position and its cell in IEEE 754 double precision
  watches         \* number of watches registered with navigator.geolocation

vars == <<playerToken, cellContents, playerLatLng, movement, hasGeo, watching,
          storedMode, statusPanel, inventory, gameWon, gridLayer,
          consoleWarned, pos64, watches>>

Abs(x) == IF x < 0 THEN 0 - x ELSE x

\* ---------------- pure functions ----------------

\* luck(seed): deterministic hash of the cell key into [0,1), in hundredths
luck(i, j) == ((i * 41 + j * 59 + 1) * 17) % 100

getCellId(latlng) == <<latlng[1] \div TILE_DEGREES, latlng[2] \div TILE_DEGREES>>

\* faulty variant: the threshold itself spawns a token
getInitialCellToken_inclusive(i, j) ==
  IF luck(i, j) <= INITIAL_TOKEN_PROBABILITY THEN 1 ELSE NULL

getInitialCellToken(i, j) ==
  IF luck(i, j) < INITIAL_TOKEN_PROBABILITY THEN 1 ELSE NULL

\* faulty variant: the store keeps the latest memento only
saveCellMemento_latestOnly(cc, cellKey, token) ==
  [k \in {cellKey} |-> token]

\* faulty variant: clearing a cell deletes its memento instead of recording null
saveCellMemento_deleteCleared(cc, cellKey, token) ==
  IF token = NULL
    THEN [k \in DOMAIN cc \ {cellKey} |-> cc[k]]
    ELSE [k \in DOMAIN cc \cup {cellKey} |-> IF k = cellKey THEN token ELSE cc[k]]

saveCellMemento(cc, cellKey, token) ==
  [k \in DOMAIN cc \cup {cellKey} |-> IF k = cellKey THEN token ELSE cc[k]]

loadCellMemento(cc, cellKey) ==
  IF cellKey \notin DOMAIN cc THEN UNDEFINED ELSE cc[cellKey]

\* faulty variant: the memento is not consulted (the memoryless cells of D3.b)
cellTokenOf_memoryless(cc, c) == getInitialCellToken(c[1], c[2])

\* the token handleCellClick and drawGrid work with for a cell
cellTokenOf(cc, c) ==
  LET restored == loadCellMemento(cc, c)
  IN IF restored # UNDEFINED THEN restored ELSE getInitialCellToken(c[1], c[2])

isNearby(i, j, iPlayer, jPlayer) ==
  /\ Abs(i - iPlayer) <= INTERACTION_RANGE
  /\ Abs(j - jPlayer) <= INTERACTION_RANGE

\* drawGrid: the rectangles of the window around the player's cell, with the
\* token each one shows
drawGrid(cc, pos) ==
  LET playerCell == getCellId(pos)
      drawn == {c \in World : /\ Abs(c[1] - playerCell[1]) <= VISIBLE_RANGE
                              /\ Abs(c[2] - playerCell[2]) <= VISIBLE_RANGE}
  IN [c \in drawn |->
        [token |-> cellTokenOf(cc, c),
         nearby |-> isNearby(c[1], c[2], playerCell[1], playerCell[2])]]

\* faulty variant: drawing records every cell of the window in cellContents
drawGridContents_memoize(cc) == [c \in World |-> cellTokenOf(cc, c)]

\* faulty variant: drawing cleans the cleared cells out of cellContents
drawGridContents_evictCleared(cc) ==
  [k \in {c \in DOMAIN cc : cc[c] # NULL} |-> cc[k]]

\* drawGrid: cellContents as drawing leaves it (it reads the mementos only)
drawGridContents(cc) == cc

\* ---------------- binary64 (IEEE 754 double) arithmetic ----------------
\* The program's positions are JavaScript Numbers.  A natural number of any
\* size is a sequence of digits to the base DigitBase, least significant
\* first and without leading zeros; a double is sign * mantissa * 2^exponent
\* with a mantissa of exactly MantissaBits bits (or zero).  Every operation
\* rounds its exact result to the nearest double, ties to even.

DigitBits == 15
DigitBase == 32768
MantissaBits == 53

Pow2(n) == 2^n

RECURSIVE BigNorm(_)
BigNorm(a) ==
  IF a = <<>> THEN <<>>
  ELSE IF a[Len(a)] = 0 THEN BigNorm(SubSeq(a, 1, Len(a) - 1))
  ELSE a

RECURSIVE BigFromInt(_)
BigFromInt(n) ==
  IF n = 0 THEN <<>> ELSE <<n % DigitBase>> \o BigFromInt(n \div DigitBase)

RECURSIVE BigToInt(_)
BigToInt(a) == IF a = <<>> THEN 0 ELSE a[1] + DigitBase * BigToInt(Tail(a))

RECURSIVE BigCmpFrom(_, _, _)
BigCmpFrom(a, b, i) ==
  IF i = 0 THEN 0
  ELSE IF a[i] < b[i] THEN -1
  ELSE IF a[i] > b[i] THEN 1
  ELSE BigCmpFrom(a, b, i - 1)

\* -1, 0 or 1 as a < b, a = b or a > b
BigCmp(a, b) ==
  IF Len(a) < Len(b) THEN -1
  ELSE IF Len(a) > Len(b) THEN 1
  ELSE BigCmpFrom(a, b, Len(a))

RECURSIVE BigAddC(_, _, _)
BigAddC(a, b, carry) ==
  IF a = <<>> /\ b = <<>> THEN (IF carry = 0 THEN <<>> ELSE <<carry>>)
  ELSE LET x == IF a = <<>> THEN 0 ELSE Head(a)
           y == IF b = <<>> THEN 0 ELSE Head(b)
           t == x + y + carry
       IN <<t % DigitBase>> \o
            BigAddC(IF a = <<>> THEN <<>> ELSE Tail(a),
                    IF b = <<>> THEN <<>> ELSE Tail(b), t \div DigitBase)

BigAdd(a, b) == BigAddC(a, b, 0)

RECURSIVE BigSubB(_, _, _)
BigSubB(a, b, borrow) ==
  IF a = <<>> THEN <<>>
  ELSE LET y == IF b = <<>> THEN 0 ELSE Head(b)
           t == Head(a) - y - borrow
       IN <<IF t < 0 THEN t + DigitBase ELSE t>> \o
            BigSubB(Tail(a), IF b = <<>> THEN <<>> ELSE Tail(b),
                    IF t < 0 THEN 1 ELSE 0)

\* a - b, for a >= b
BigSub(a, b) == BigNorm(BigSubB(a, b, 0))

\* a * k + carry, for 0 < k < DigitBase and carry < DigitBase
RECURSIVE BigMulC(_, _, _)
BigMulC(a, k, carry) ==
  IF a = <<>> THEN (IF carry = 0 THEN <<>> ELSE <<carry>>)
  ELSE LET t == Head(a) * k + carry
       IN <<t % DigitBase>> \o BigMulC(Tail(a), k, t \div DigitBase)

RECURSIVE BigMulR(_, _)
BigMulR(a, b) ==
  IF b = <<>> THEN <<>>
  ELSE BigAdd(IF Head(b) = 0 THEN <<>> ELSE BigMulC(a, Head(b), 0),
              <<0>> \o BigMulR(a, Tail(b)))

BigMul(a, b) == IF a = <<>> THEN <<>> ELSE BigNorm(BigMulR(a, b))

\* a * 2^n
BigShl(a, n) ==
  IF a = <<>> THEN <<>>
  ELSE [i \in 1..(n \div DigitBits) |-> 0] \o BigMulC(a, Pow2(n % DigitBits), 0)

\* floor(a / 2^n)
BigShr(a, n) ==
  IF n \div DigitBits >= Len(a) THEN <<>>
  ELSE LET d == SubSeq(a, n \div DigitBits + 1, Len(a))
           p == Pow2(n % DigitBits)
       IN BigNorm([i \in 1..Len(d) |->
                     (d[i] \div p)
                       + ((IF i < Len(d) THEN d[i + 1] ELSE 0) % p) * (DigitBase \div p)])

\* bit i of a (bit 0 is the least significant)
BigBit(a, i) ==
  IF i \div DigitBits >= Len(a) THEN 0
  ELSE (a[i \div DigitBits + 1] \div Pow2(i % DigitBits)) % 2

RECURSIVE IntBitLen(_)
IntBitLen(n) == IF n = 0 THEN 0 ELSE 1 + IntBitLen(n \div 2)

BigBitLen(a) ==
  IF a = <<>> THEN 0 ELSE DigitBits * (Len(a) - 1) + IntBitLen(a[Len(a)])

\* long division of a by d, one bit of a at a time: the step for bit `bit`
\* of a, from the quotient and remainder st of the bits above it
BigDivStep(d, st, bit) ==
  LET r2 == BigMulC(st.r, 2, bit)
      ge == BigCmp(r2, d) >= 0
  IN [q |-> BigMulC(st.q, 2, IF ge THEN 1 ELSE 0),
      r |-> IF ge THEN BigSub(r2, d) ELSE r2]

\* the steps for the bits hi down to lo of a (each step is computed before
\* the next one is entered)
RECURSIVE BigDivBits(_, _, _, _, _)
BigDivBits(a, d, hi, lo, st) ==
  IF hi < lo THEN st
  ELSE LET next == BigDivStep(d, st, BigBit(a, hi))
       IN IF Len(next.q) >= 0 /\ Len(next.r) >= 0
            THEN BigDivBits(a, d, hi - 1, lo, next)
            ELSE next

\* the steps for the digits j down to 1 of a
RECURSIVE BigDivDigits(_, _, _, _)
BigDivDigits(a, d, j, st) ==
  IF j = 0 THEN st
  ELSE LET next == BigDivBits(a, d, DigitBits * j - 1, DigitBits * (j - 1), st)
       IN IF Len(next.q) >= 0 /\ Len(next.r) >= 0
            THEN BigDivDigits(a, d, j - 1, next)
            ELSE next

\* quotient and remainder of a by d
BigDivMod(a, d) == BigDivDigits(a, d, Len(a), [q |-> <<>>, r |-> <<>>])

DoubleZero == [s |-> 1, m |-> <<>>, e |-> 0]

\* the double nearest to s * a * 2^e (ties to even)
RoundToDouble(s, a, e) ==
  IF a = <<>> THEN DoubleZero
  ELSE LET len == BigBitLen(a)
       IN IF len <= MantissaBits
            THEN [s |-> s, m |-> BigShl(a, MantissaBits - len),
                  e |-> e - (MantissaBits - len)]
            ELSE LET sh == len - MantissaBits
                     q == BigShr(a, sh)
                     r == BigSub(a, BigShl(q, sh))
                     c == BigCmp(r, BigShl(<<1>>, sh - 1))
                     up == c > 0 \/ (c = 0 /\ q[1] % 2 = 1)
                     q1 == IF up THEN BigAddC(q, <<>>, 1) ELSE q
                 IN IF BigBitLen(q1) > MantissaBits
                      THEN [s |-> s, m |-> BigShr(q1, 1), e |-> e + sh + 1]
                      ELSE [s |-> s, m |-> q1, e |-> e + sh]

\* the double nearest to s * (n / d) * 2^e: the quotient is taken with three
\* bits more than the mantissa holds, and a sticky bit for the remainder
DoubleOfRatio(s, n, d, e) ==
  IF n = <<>> THEN DoubleZero
  ELSE LET k0 == MantissaBits + 3 + BigBitLen(d) - BigBitLen(n)
           k == IF k0 < 0 THEN 0 ELSE k0
           qr == BigDivMod(BigShl(n, k), d)
           a == BigMulC(qr.q, 2, IF qr.r = <<>> THEN 0 ELSE 1)
       IN RoundToDouble(s, a, e - k - 1)

\* Number(i) for an integer i
DoubleOfInt(i) == RoundToDouble(IF i < 0 THEN -1 ELSE 1,
                                BigFromInt(IF i < 0 THEN 0 - i ELSE i), 0)

RECURSIVE BigOfDecimal(_, _)
BigOfDecimal(digits, acc) ==
  IF digits = <<>> THEN acc
  ELSE BigOfDecimal(Tail(digits),
                    IF acc = <<>> THEN BigFromInt(Head(digits))
                    ELSE BigMulC(acc, 10, Head(digits)))

RECURSIVE BigPow10(_)
BigPow10(k) == IF k = 0 THEN <<1>> ELSE BigMulC(BigPow10(k - 1), 10, 0)

\* the value of a decimal literal: its digits, with scale digits after the point
DoubleOfLiteral(s, digits, scale) ==
  DoubleOfRatio(s, BigOfDecimal(digits, <<>>), BigPow10(scale), 0)

\* x * y
DoubleMul(x, y) == RoundToDouble(x.s * y.s, BigMul(x.m, y.m), x.e + y.e)

\* x / y, for y # 0
DoubleDiv(x, y) == DoubleOfRatio(x.s * y.s, x.m, y.m, x.e - y.e)

\* x + y
DoubleAdd(x, y) ==
  IF x.m = <<>> THEN y
  ELSE IF y.m = <<>> THEN x
  ELSE LET e == IF x.e < y.e THEN x.e ELSE y.e
           ax == BigShl(x.m, x.e - e)
           ay == BigShl(y.m, y.e - e)
           c == BigCmp(ax, ay)
       IN IF x.s = y.s THEN RoundToDouble(x.s, BigAdd(ax, ay), e)
          ELSE IF c = 0 THEN DoubleZero
          ELSE IF c > 0 THEN RoundToDouble(x.s, BigSub(ax, ay), e)
          ELSE RoundToDouble(y.s, BigSub(ay, ax), e)

\* -x
DoubleNeg(x) == [x EXCEPT !.s = 0 - x.s]

\* Math.floor(x), for |x| < 2^31
MathFloor(x) ==
  IF x.m = <<>> THEN 0
  ELSE IF x.e >= 0 THEN x.s * BigToInt(BigShl(x.m, x.e))
  ELSE LET q == BigShr(x.m, 0 - x.e)
           exact == BigShl(q, 0 - x.e) = x.m
       IN IF x.s = 1 THEN BigToInt(q)
          ELSE IF exact THEN 0 - BigToInt(q)
          ELSE 0 - BigToInt(q) - 1

\* ---------------- the coordinate mapper in double precision ----------------

\* TILE_DEGREES = 0.0001, as the double the literal denotes
TileDegrees64 == DoubleOfLiteral(1, <<1>>, 4)

\* CLASSROOM_LATLNG = (36.997936938057016, -122.05703507501151)
ClassroomLatLng64 ==
  <<DoubleOfLiteral(1, <<3, 6, 9, 9, 7, 9, 3, 6, 9, 3, 8, 0, 5, 7, 0, 1, 6>>, 15),
    DoubleOfLiteral(-1, <<1, 2, 2, 0, 5, 7, 0, 3, 5, 0, 7, 5, 0, 1, 1, 5, 1>>, 14)>>

\* getCellId: Math.floor(latlng.lat / TILE_DEGREES), Math.floor(latlng.lng / TILE_DEGREES)
getCellId64(latlng) ==
  <<MathFloor(DoubleDiv(latlng[1], TileDegrees64)),
    MathFloor(DoubleDiv(latlng[2], TileDegrees64))>>

\* getCellBounds: [[i * TILE_DEGREES, j * TILE_DEGREES],
\*                 [(i + 1) * TILE_DEGREES, (j + 1) * TILE_DEGREES]]
getCellBounds64(i, j) ==
  [southWest |-> <<DoubleMul(DoubleOfInt(i), TileDegrees64),
                   DoubleMul(DoubleOfInt(j), TileDegrees64)>>,
   northEast |-> <<DoubleMul(DoubleOfInt(i + 1), TileDegrees64),
                   DoubleMul(DoubleOfInt(j + 1), TileDegrees64)>>]

\* a position, the cell getCellId gives it, the cell whose south-west corner
\* it was taken from (<<>> when it was not), and the presses made since
Located64(latlng, corner, presses) ==
  [latlng |-> latlng, cell |-> getCellId64(latlng), cornerOf |-> corner,
   presses |-> presses]

Start64 == Located64(ClassroomLatLng64, <<>>, 0)

\* the cells whose corners the position feed delivers, and the presses
\* followed after a delivery
Reach64 == 3
MaxPresses64 == 2
Near64 ==
  {<<Start64.cell[1] + di, Start64.cell[2] + dj>> :
     di \in (0 - Reach64)..Reach64, dj \in (0 - Reach64)..Reach64}

\* the south-west corner of each of these cells, as getCellBounds gives it,
\* with the cell getCellId gives it
Corner64 ==
  [c \in Near64 |-> Located64(getCellBounds64(c[1], c[2]).southWest, c, 0)]

\* ---------------- operations ----------------

\* faulty variant: the banner shows only while the winning token is held
updateInventoryDisplay_whileHeld(token, won) == token # NULL /\ token >= WIN_VALUE

\* faulty variant: a token of exactly WIN_VALUE does not win
updateInventoryDisplay_above(token, won) == won \/ (token # NULL /\ token > WIN_VALUE)

\* updateInventoryDisplay: the victory banner is set when the held token
\* reaches WIN_VALUE and is never removed
updateInventoryDisplay(token, won) == won \/ (token # NULL /\ token >= WIN_VALUE)

\* movePlayer(newLatLng), called by the listeners of the active movement
movePlayer(newLatLng) ==
  /\ playerLatLng' = newLatLng
  /\ cellContents' = drawGridContents(cellContents)
  /\ gridLayer' = drawGrid(cellContents, movement'.pos)
  /\ UNCHANGED playerToken

\* faulty variant: a cell exactly INTERACTION_RANGE away is too far
tooFar_inclusive(i, j, iPlayer, jPlayer) ==
  \/ Abs(i - iPlayer) >= INTERACTION_RANGE
  \/ Abs(j - jPlayer) >= INTERACTION_RANGE

\* faulty variant: too far only when both axes are out of range
tooFar_bothAxes(i, j, iPlayer, jPlayer) ==
  /\ Abs(i - iPlayer) > INTERACTION_RANGE
  /\ Abs(j - jPlayer) > INTERACTION_RANGE

\* handleCellClick, step 1: the interaction range check
tooFar(i, j, iPlayer, jPlayer) ==
  \/ Abs(i - iPlayer) > INTERACTION_RANGE
  \/ Abs(j - jPlayer) > INTERACTION_RANGE

\* faulty variant: a collect saves no memento, so the cell keeps its token
interact_collectCopies(held, cellToken) ==
  IF held = NULL /\ cellToken # NULL
    THEN [playerToken |-> cellToken, saved |-> UNDEFINED, status |-> "collected"]
  ELSE IF held # NULL /\ cellToken # NULL /\ held = cellToken
    THEN [playerToken |-> NULL, saved |-> held * 2, status |-> "crafted"]
  ELSE IF held # NULL /\ cellToken = NULL
    THEN [playerToken |-> NULL, saved |-> held, status |-> "placed"]
  ELSE [playerToken |-> held, saved |-> UNDEFINED, status |-> "cannot"]

\* faulty variant: crafting triples
interact_craftTriples(held, cellToken) ==
  IF held = NULL /\ cellToken # NULL
    THEN [playerToken |-> cellToken, saved |-> NULL, status |-> "collected"]
  ELSE IF held # NULL /\ cellToken # NULL /\ held = cellToken
    THEN [playerToken |-> NULL, saved |-> held * 3, status |-> "crafted"]
  ELSE IF held # NULL /\ cellToken = NULL
    THEN [playerToken |-> NULL, saved |-> held, status |-> "placed"]
  ELSE [playerToken |-> held, saved |-> UNDEFINED, status |-> "cannot"]

\* faulty variant: crafting adds one instead of doubling
interact_craftIncrement(held, cellToken) ==
  IF held = NULL /\ cellToken # NULL
    THEN [playerToken |-> cellToken, saved |-> NULL, status |-> "collected"]
  ELSE IF held # NULL /\ cellToken # NULL /\ held = cellToken
    THEN [playerToken |-> NULL, saved |-> held + 1, status |-> "crafted"]
  ELSE IF held # NULL /\ cellToken = NULL
    THEN [playerToken |-> NULL, saved |-> held, status |-> "placed"]
  ELSE [playerToken |-> held, saved |-> UNDEFINED, status |-> "cannot"]

\* faulty variant: placing keeps the token in the hand
interact_placeKeepsToken(held, cellToken) ==
  IF held = NULL /\ cellToken # NULL
    THEN [playerToken |-> cellToken, saved |-> NULL, status |-> "collected"]
  ELSE IF held # NULL /\ cellToken # NULL /\ held = cellToken
    THEN [playerToken |-> NULL, saved |-> held * 2, status |-> "crafted"]
  ELSE IF held # NULL /\ cellToken = NULL
    THEN [playerToken |-> held, saved |-> held, status |-> "placed"]
  ELSE [playerToken |-> held, saved |-> UNDEFINED, status |-> "cannot"]

\* faulty variant: a held token is placed over a token of another value
interact_placeOverwrites(held, cellToken) ==
  IF held = NULL /\ cellToken # NULL
    THEN [playerToken |-> cellToken, saved |-> NULL, status |-> "collected"]
  ELSE IF held # NULL /\ cellToken # NULL /\ held = cellToken
    THEN [playerToken |-> NULL, saved |-> held * 2, status |-> "crafted"]
  ELSE IF held # NULL
    THEN [playerToken |-> NULL, saved |-> held, status |-> "placed"]
  ELSE [playerToken |-> held, saved |-> UNDEFINED, status |-> "cannot"]

\* faulty variant: a rejected click saves the cell's token as a memento
interact_rejectSaves(held, cellToken) ==
  IF held = NULL /\ cellToken # NULL
    THEN [playerToken |-> cellToken, saved |-> NULL, status |-> "collected"]
  ELSE IF held # NULL /\ cellToken # NULL /\ held = cellToken
    THEN [playerToken |-> NULL, saved |-> held * 2, status |-> "crafted"]
  ELSE IF held # NULL /\ cellToken = NULL
    THEN [playerToken |-> NULL, saved |-> held, status |-> "placed"]
  ELSE [playerToken |-> held, saved |-> cellToken, status |-> "cannot"]

\* faulty variant: on a mismatch the held token and the cell's token are swapped
interact_mismatchSwaps(held, cellToken) ==
  IF held = NULL /\ cellToken # NULL
    THEN [playerToken |-> cellToken, saved |-> NULL, status |-> "collected"]
  ELSE IF held # NULL /\ cellToken # NULL /\ held = cellToken
    THEN [playerToken |-> NULL, saved |-> held * 2, status |-> "crafted"]
  ELSE IF held # NULL /\ cellToken = NULL
    THEN [playerToken |-> NULL, saved |-> held, status |-> "placed"]
  ELSE IF held # NULL
    THEN [playerToken |-> cellToken, saved |-> held, status |-> "cannot"]
  ELSE [playerToken |-> held, saved |-> UNDEFINED, status |-> "cannot"]

\* handleCellClick, the four mechanics: the new holding, the memento saved
\* for the cell (UNDEFINED when none is saved) and the message class
interact(held, cellToken) ==
  IF held = NULL /\ cellToken # NULL
    THEN [playerToken |-> cellToken, saved |-> NULL, status |-> "collected"]
  ELSE IF held # NULL /\ cellToken # NULL /\ held = cellToken
    THEN [playerToken |-> NULL, saved |-> held * 2, status |-> "crafted"]
  ELSE IF held # NULL /\ cellToken = NULL
    THEN [playerToken |-> NULL, saved |-> held, status |-> "placed"]
  ELSE [playerToken |-> held, saved |-> UNDEFINED, status |-> "cannot"]

\* faulty variant: once the game is won the cells no longer react
handleCellClick_lockedAfterWin(c) ==
  LET cellToken == cellTokenOf(cellContents, c)
      playerCell == getCellId(movement.pos)
      r == interact(playerToken, cellToken)
      cc == IF r.saved = UNDEFINED THEN cellContents
            ELSE saveCellMemento(cellContents, c, r.saved)
  IN
  /\ ~gameWon
  /\ c \in DOMAIN gridLayer
  /\ IF tooFar(c[1], c[2], playerCell[1], playerCell[2])
     THEN /\ statusPanel' = "tooFar"
          /\ UNCHANGED <<playerToken, cellContents, inventory, gameWon, gridLayer>>
     ELSE /\ playerToken' = r.playerToken
          /\ statusPanel' = r.status
          /\ inventory' = playerToken'
          /\ gameWon' = updateInventoryDisplay(playerToken', gameWon)
          /\ cellContents' = drawGridContents(cc)
          /\ gridLayer' = drawGrid(cc, movement.pos)
  /\ UNCHANGED <<playerLatLng, movement, hasGeo, watching, storedMode,
                 consoleWarned, pos64, watches>>

\* handleCellClick(i, j), delivered by the click handler of a drawn rectangle
handleCellClick(c) ==
  LET cellToken == cellTokenOf(cellContents, c)
      playerCell == getCellId(movement.pos)
      r == interact(playerToken, cellToken)
      cc == IF r.saved = UNDEFINED THEN cellContents
            ELSE saveCellMemento(cellContents, c, r.saved)
  IN
  /\ c \in DOMAIN gridLayer
  /\ IF tooFar(c[1], c[2], playerCell[1], playerCell[2])
     THEN /\ statusPanel' = "tooFar"
          /\ UNCHANGED <<playerToken, cellContents, inventory, gameWon, gridLayer>>
     ELSE /\ playerToken' = r.playerToken
          /\ statusPanel' = r.status
          /\ inventory' = playerToken'
          /\ gameWon' = updateInventoryDisplay(playerToken', gameWon)
          /\ cellContents' = drawGridContents(cc)
          /\ gridLayer' = drawGrid(cc, movement.pos)
  /\ UNCHANGED <<playerLatLng, movement, hasGeo, watching, storedMode,
                 consoleWarned, pos64, watches>>

\* ButtonMovement.moveBy through a direction button; without a button
\* movement (geolocation mode) the press does nothing
moveBy(deltaLat, deltaLng) ==
  LET newPos == <<movement.pos[1] + deltaLat, movement.pos[2] + deltaLng>>
  IN
  /\ IF movement.kind = "buttons"
     THEN /\ newPos \in Positions
          /\ movement' = [movement EXCEPT !.pos = newPos]
          /\ movePlayer(newPos)
     ELSE UNCHANGED <<movement, playerLatLng, gridLayer, cellContents, playerToken>>
  /\ UNCHANGED <<hasGeo, watching, storedMode, statusPanel, inventory, gameWon,
                 consoleWarned, pos64, watches>>

btnNorth == moveBy(TILE_DEGREES, 0)
btnSouth == moveBy(0 - TILE_DEGREES, 0)
btnEast == moveBy(0, TILE_DEGREES)
btnWest == moveBy(0, 0 - TILE_DEGREES)

\* faulty variant: the callback notifies the listeners but does not store the
\* position in the movement object, which keeps answering with an old one
watchPosition_staleFacade(p) ==
  /\ watching
  /\ movement.kind = "geolocation"
  /\ movement' = movement
  /\ movePlayer(p)
  /\ UNCHANGED <<hasGeo, watching, storedMode, statusPanel, inventory, gameWon,
                 consoleWarned, pos64, watches>>

\* GeolocationMovement.startWatching: the success callback of a registered
\* watch.  It stores the position in the object that started the watch,
\* which is the active movement unless the watch outlived its object, and
\* calls that object's listeners.
watchPosition(p) ==
  /\ watches > 0
  /\ movement' = IF watching /\ movement.kind = "geolocation"
                   THEN [movement EXCEPT !.pos = p] ELSE movement
  /\ movePlayer(p)
  /\ UNCHANGED <<hasGeo, watching, storedMode, statusPanel, inventory, gameWon,
                 consoleWarned, pos64, watches>>

\* faulty variant: a failure ends the watch and resets the player position
watchError_givesUp ==
  /\ watching
  /\ movement.kind = "geolocation"
  /\ consoleWarned' = TRUE
  /\ UNCHANGED pos64
  /\ watches' = 0
  /\ watching' = FALSE
  /\ playerLatLng' = StartLatLng
  /\ UNCHANGED <<playerToken, cellContents, movement, hasGeo,
                 storedMode, statusPanel, inventory, gameWon, gridLayer>>

\* GeolocationMovement.startWatching: the error callback (console.warn only)
watchError ==
  /\ watching
  /\ movement.kind = "geolocation"
  /\ consoleWarned' = TRUE
  /\ UNCHANGED pos64
  /\ UNCHANGED watches
  /\ UNCHANGED <<playerToken, cellContents, playerLatLng, movement, hasGeo,
                 watching, storedMode, statusPanel, inventory, gameWon,
                 gridLayer>>

\* map.on("moveend"): the user scrolled the map
mapMoveEnd ==
  /\ cellContents' = drawGridContents(cellContents)
  /\ gridLayer' = drawGrid(cellContents, movement.pos)
  /\ UNCHANGED <<playerToken, playerLatLng, movement, hasGeo,
                 watching, storedMode, statusPanel, inventory, gameWon,
                 consoleWarned, pos64, watches>>

\* faulty variant: the new implementation starts from the classroom position
newMovement_fromStart(current, mode, geo) ==
  IF mode = "geolocation" /\ geo
    THEN [kind |-> "geolocation", pos |-> StartLatLng, watchId |-> 1]
    ELSE [kind |-> "buttons", pos |-> StartLatLng, watchId |-> NULL]

\* the movement implementation setMovementMode installs
newMovement(current, mode, geo) ==
  IF mode = "geolocation" /\ geo
    THEN [kind |-> "geolocation", pos |-> current.pos, watchId |-> 1]
    ELSE [kind |-> "buttons", pos |-> current.pos, watchId |-> NULL]

\* faulty variant: the current implementation is not stopped, so a watch it
\* started stays registered when it is replaced
setMovementMode_noStop(mode, writeOk) ==
  /\ movement' = newMovement(movement, mode, hasGeo)
  /\ watching' = (movement'.kind = "geolocation")
  /\ watches' = watches + (IF movement'.kind = "geolocation" THEN 1 ELSE 0)
  /\ storedMode' = IF writeOk THEN mode ELSE storedMode
  /\ UNCHANGED <<playerToken, cellContents, playerLatLng, hasGeo, statusPanel,
                 inventory, gameWon, gridLayer, consoleWarned, pos64>>

\* faulty variant: no try/catch, and the write comes before the new movement
\* is installed: a failing setItem leaves the function after current.stop()
setMovementMode_writeUnguarded(mode, writeOk) ==
  /\ movement' = IF writeOk THEN newMovement(movement, mode, hasGeo) ELSE movement
  /\ watching' = IF writeOk /\ movement'.kind = "geolocation" THEN TRUE
                 ELSE IF movement.watchId # NULL THEN FALSE ELSE watching
  /\ watches' = watches - (IF movement.watchId # NULL /\ watching THEN 1 ELSE 0)
                 + (IF writeOk /\ movement'.kind = "geolocation" THEN 1 ELSE 0)
  /\ storedMode' = IF writeOk THEN mode ELSE storedMode
  /\ UNCHANGED <<playerToken, cellContents, playerLatLng, hasGeo, statusPanel,
                 inventory, gameWon, gridLayer, consoleWarned, pos64>>

\* setMovementMode(mode), from the movementMode select; writeOk: setItem succeeded
setMovementMode(mode, writeOk) ==
  /\ movement' = newMovement(movement, mode, hasGeo)
  /\ watching' = IF movement'.kind = "geolocation" THEN TRUE
                 ELSE IF movement.watchId # NULL THEN FALSE ELSE watching
  /\ watches' = watches - (IF movement.watchId # NULL /\ watching THEN 1 ELSE 0)
                 + (IF movement'.kind = "geolocation" THEN 1 ELSE 0)
  /\ storedMode' = IF writeOk THEN mode ELSE storedMode
  /\ UNCHANGED <<playerToken, cellContents, playerLatLng, hasGeo, statusPanel,
                 inventory, gameWon, gridLayer, consoleWarned, pos64>>

\* ---------------- specification ----------------

\* faulty variant: the saved preference wins over the URL parameter
initialMode_savedFirst(paramMode, saved) ==
  IF saved # "" THEN saved ELSE IF paramMode # "" THEN paramMode ELSE "buttons"

\* applyInitialMovementMode: URL parameter, else saved preference, else buttons
initialMode(paramMode, saved) ==
  IF paramMode # "" THEN paramMode ELSE IF saved # "" THEN saved ELSE "buttons"

Init ==
  /\ hasGeo \in BOOLEAN
  /\ \E paramMode \in {"", "buttons", "geolocation"} :
       \E saved \in {"", "buttons", "geolocation"} :
         /\ movement = newMovement([pos |-> StartLatLng],
                                    initialMode(paramMode, saved), hasGeo)
         /\ storedMode = initialMode(paramMode, saved)
  /\ watching = (movement.kind = "geolocation")
  /\ playerToken = NULL
  /\ cellContents = <<>>
  /\ playerLatLng = StartLatLng
  /\ statusPanel = "welcome"
  /\ inventory = NULL
  /\ gameWon = FALSE
  /\ gridLayer = drawGrid(<<>>, StartLatLng)
  /\ consoleWarned = FALSE
  /\ pos64 = Start64
  /\ watches = IF watching THEN 1 ELSE 0

Next ==
  \/ \E c \in World : handleCellClick(c)
  \/ btnNorth
  \/ btnSouth
  \/ btnEast
  \/ btnWest
  \/ \E p \in GeoFeed : watchPosition(p)
  \/ watchError
  \/ mapMoveEnd
  \/ \E mode \in Modes : setMovementMode(mode, TRUE)

Spec == Init /\ [][Next]_vars

\* The page on a platform whose localStorage may refuse a write (quota
\* exceeded, storage disabled): setItem throws inside setMovementMode.
NextW ==
  \/ Next
  \/ \E mode \in Modes : setMovementMode(mode, FALSE)

SpecWriteFail == Init /\ [][NextW]_vars

\* A load of the page in which localStorage.getItem throws (storage disabled
\* or blocked) while the URL names no mode: applyInitialMovementMode throws,
\* and the module's code after its call never runs.  What exists is what was
\* set up before the call: the panels with their initial HTML, the default
\* ButtonMovement, and the listener of the movementMode select.  No map, no
\* marker, no grid, no button handlers, no welcome text.
startupAborted ==
  /\ hasGeo \in BOOLEAN
  /\ storedMode \in Params
  /\ movement = [kind |-> "buttons", pos |-> StartLatLng, watchId |-> NULL]
  /\ watching = FALSE
  /\ playerToken = NULL
  /\ cellContents = <<>>
  /\ playerLatLng = StartLatLng
  /\ statusPanel = ""
  /\ inventory = NULL
  /\ gameWon = FALSE
  /\ gridLayer = <<>>
  /\ consoleWarned = FALSE
  /\ pos64 = Start64
  /\ watches = IF watching THEN 1 ELSE 0

\* the module's code ran to its end
pageRan == statusPanel # ""

\* the success callback of a watch started from the select of a page whose
\* startup was aborted: movePlayer assigns playerLatLng and then throws at
\* playerMarker, which was never initialised
watchPositionAborted(p) ==
  /\ watching
  /\ movement.kind = "geolocation"
  /\ movement' = [movement EXCEPT !.pos = p]
  /\ playerLatLng' = p
  /\ UNCHANGED <<playerToken, cellContents, hasGeo, watching, storedMode,
                 statusPanel, inventory, gameWon, gridLayer, consoleWarned,
                 pos64, watches>>

InitS == Init \/ startupAborted

NextS ==
  \/ pageRan /\ Next
  \/ ~pageRan /\ \E mode \in Modes : \E writeOk \in BOOLEAN :
                   setMovementMode(mode, writeOk)
  \/ ~pageRan /\ \E p \in GeoFeed : watchPositionAborted(p)
  \/ ~pageRan /\ watchError

SpecStartup == InitS /\ [][NextS]_vars

\* A later state of a session: the player has crafted two tokens of value
\* WIN_VALUE / 2 from tokens spawned elsewhere in the world, has placed them
\* into the two token cells next to the start after collecting from them,
\* and stands at the start again.
LateContents == [c \in {<<-1, -1>>, <<0, -1>>} |-> WIN_VALUE \div 2]

InitLate ==
  /\ hasGeo \in BOOLEAN
  /\ \E mode \in Modes :
       /\ movement = newMovement([pos |-> StartLatLng], mode, hasGeo)
       /\ storedMode = mode
  /\ watching = (movement.kind = "geolocation")
  /\ playerToken = NULL
  /\ cellContents = LateContents
  /\ playerLatLng = StartLatLng
  /\ statusPanel = "placed"
  /\ inventory = NULL
  /\ gameWon = FALSE
  /\ gridLayer = drawGrid(LateContents, StartLatLng)
  /\ consoleWarned = FALSE
  /\ pos64 = Start64
  /\ watches = IF watching THEN 1 ELSE 0

SpecLate == InitLate /\ [][Next]_vars

\* The page is loaded again: the module's top-level code runs from the start.
\* Only localStorage (the key "movementMode") and the platform outlive the
\* page; writeOk: the setItem of the startup setMovementMode succeeded.
reload(paramMode, writeOk) ==
  /\ statusPanel' = "welcome"
  /\ movement' = newMovement([pos |-> StartLatLng],
                             initialMode(paramMode, storedMode), hasGeo)
  /\ watching' = (movement'.kind = "geolocation")
  /\ storedMode' = IF writeOk THEN initialMode(paramMode, storedMode)
                   ELSE storedMode
  /\ playerToken' = NULL
  /\ cellContents' = <<>>
  /\ playerLatLng' = StartLatLng
  /\ inventory' = NULL
  /\ gameWon' = FALSE
  /\ gridLayer' = drawGrid(<<>>, StartLatLng)
  /\ consoleWarned' = FALSE
  /\ UNCHANGED pos64
  /\ watches' = IF watching' THEN 1 ELSE 0
  /\ UNCHANGED hasGeo

\* first load of the page with any earlier content of localStorage; the write
\* of the first load may have failed (storage full or disabled at that time)
InitR ==
  /\ hasGeo \in BOOLEAN
  /\ \E paramMode \in Params : \E saved \in Params : \E writeOk \in BOOLEAN :
       /\ movement = newMovement([pos |-> StartLatLng],
                                  initialMode(paramMode, saved), hasGeo)
       /\ storedMode = IF writeOk THEN initialMode(paramMode, saved) ELSE saved
  /\ watching = (movement.kind = "geolocation")
  /\ playerToken = NULL
  /\ cellContents = <<>>
  /\ playerLatLng = StartLatLng
  /\ statusPanel = "welcome"
  /\ inventory = NULL
  /\ gameWon = FALSE
  /\ gridLayer = drawGrid(<<>>, StartLatLng)
  /\ consoleWarned = FALSE
  /\ pos64 = Start64
  /\ watches = IF watching THEN 1 ELSE 0

NextR ==
  \/ Next
  \/ \E paramMode \in Params : reload(paramMode, TRUE)

SpecReload == InitR /\ [][NextR]_vars

\* ---------------- the position sources in double precision ----------------
\* Under SpecDouble the position is followed as the doubles the program
\* holds (pos64); the integer abstraction of the position and the game
\* state stay as the page load left them.

\* GeolocationMovement's success callback with a fix that lies on the
\* south-west corner of cell c
watchPosition64(c) ==
  /\ watching
  /\ movement.kind = "geolocation"
  /\ pos64' = Corner64[c]
  /\ UNCHANGED <<playerToken, cellContents, playerLatLng, movement, hasGeo,
                 watching, storedMode, statusPanel, inventory, gameWon,
                 gridLayer, consoleWarned, watches>>

\* ButtonMovement.moveBy: latLng(pos.lat + deltaLat, pos.lng + deltaLng)
moveBy64(deltaLat, deltaLng) ==
  /\ movement.kind = "buttons"
  /\ pos64.presses < MaxPresses64
  /\ pos64' = Located64(<<DoubleAdd(pos64.latlng[1], deltaLat),
                          DoubleAdd(pos64.latlng[2], deltaLng)>>,
                        <<>>, pos64.presses + 1)
  /\ UNCHANGED <<playerToken, cellContents, playerLatLng, movement, hasGeo,
                 watching, storedMode, statusPanel, inventory, gameWon,
                 gridLayer, consoleWarned, watches>>

btnNorth64 == moveBy64(TileDegrees64, DoubleZero)
btnSouth64 == moveBy64(DoubleNeg(TileDegrees64), DoubleZero)
btnEast64 == moveBy64(DoubleZero, TileDegrees64)
btnWest64 == moveBy64(DoubleZero, DoubleNeg(TileDegrees64))

NextD ==
  \/ \E c \in Near64 : watchPosition64(c)
  \/ btnNorth64
  \/ btnSouth64
  \/ btnEast64
  \/ btnWest64
  \/ \E mode \in Modes : setMovementMode(mode, TRUE)

SpecDouble == Init /\ [][NextD]_vars

\* ---------------- vocabulary of the properties ----------------

\* spawnOf(i, j): a value-1 token when the hash falls below the threshold
SpawnOf(c) == IF luck(c[1], c[2]) < INITIAL_TOKEN_PROBABILITY THEN 1 ELSE NULL

Overridden(c) == c \in DOMAIN cellContents

\* effectiveContent(i, j): the override when one is recorded, else the spawn
EffectiveContent(c) == IF Overridden(c) THEN cellContents[c] ELSE SpawnOf(c)

ExplicitEmpty(c) == Overridden(c) /\ cellContents[c] = NULL

Max(a, b) == IF a >= b THEN a ELSE b

\* component-wise (Chebyshev) distance of a cell from the player's cell
Distance(c) ==
  LET playerCell == getCellId(playerLatLng)
  IN Max(Abs(c[1] - playerCell[1]), Abs(c[2] - playerCell[2]))

InRange(c) == Distance(c) <= INTERACTION_RANGE

Success == {"collected", "crafted", "placed"}

\* ---------------- properties ----------------

\* C1 (collect): a click on an in-range cell whose effective content is a
\* token T, made while the player holds nothing, sets the holding to T and
\* records an explicit-empty override, so the cell is empty afterwards.
C1_Collect ==
  [][\A c \in World :
       (InRange(c) /\ playerToken = NULL /\ EffectiveContent(c) # NULL
          /\ handleCellClick(c))
       => /\ playerToken' = EffectiveContent(c)
          /\ ExplicitEmpty(c)'
          /\ EffectiveContent(c)' = NULL]_vars

\* a token of value 2 (a crafted one) has been collected from its cell
C1_Witness ==
  /\ statusPanel = "collected"
  /\ playerToken = 2
  /\ \E c \in World : ExplicitEmpty(c) /\ SpawnOf(c) = 1

\* C2 (craft): a click on an in-range cell whose effective content is a token
\* of value T, made while the player holds a token of the same value T,
\* empties the hand and records an override of value exactly 2T in the cell.
C2_Craft ==
  [][\A c \in World :
       (InRange(c) /\ playerToken # NULL /\ EffectiveContent(c) = playerToken
          /\ handleCellClick(c))
       => /\ playerToken' = NULL
          /\ Overridden(c)'
          /\ cellContents'[c] = 2 * playerToken]_vars

\* two tokens of value 2 have been crafted into one of value 4
C2_Witness ==
  /\ statusPanel = "crafted"
  /\ playerToken = NULL
  /\ \E c \in World : Overridden(c) /\ cellContents[c] = 4

\* C3 (place): a click on an in-range cell whose effective content is empty
\* (virtual-default or explicitly emptied), made while the player holds a
\* token T, empties the hand and records an override holding exactly T.
C3_Place ==
  [][\A c \in World :
       (InRange(c) /\ playerToken # NULL /\ EffectiveContent(c) = NULL
          /\ handleCellClick(c))
       => /\ playerToken' = NULL
          /\ Overridden(c)'
          /\ cellContents'[c] = playerToken]_vars

\* a token of value 2 lies in a cell that spawns empty, after a place, while
\* a cell that spawned a token holds a placed token too
C3_Witness ==
  /\ statusPanel = "placed"
  /\ playerToken = NULL
  /\ \E c \in World : SpawnOf(c) = NULL /\ Overridden(c) /\ cellContents[c] = 2
  /\ \E c \in World : SpawnOf(c) = 1 /\ Overridden(c) /\ cellContents[c] = 1

\* C4 (anti-farming): a cell a token was collected from stays explicitly
\* empty in every step but a place into it, is drawn empty and never with
\* its spawn token, and an empty-handed click on it changes neither the
\* holding nor the store.
C4_AntiFarming ==
  [][\A c \in World :
       ExplicitEmpty(c)
       => /\ ExplicitEmpty(c)' \/ (playerToken # NULL /\ handleCellClick(c))
          /\ (ExplicitEmpty(c)' /\ c \in DOMAIN gridLayer')
               => gridLayer'[c].token = NULL
          /\ (playerToken = NULL /\ handleCellClick(c))
               => /\ playerToken' = NULL
                  /\ cellContents' = cellContents
                  /\ statusPanel' \in {"cannot", "tooFar"}]_vars

\* an empty-handed click was rejected on a cell a spawned token had been
\* collected from: every cell that spawns empty holds a token by now
C4_Witness ==
  /\ statusPanel = "cannot"
  /\ playerToken = NULL
  /\ \A c \in World : SpawnOf(c) = NULL => EffectiveContent(c) # NULL
  /\ \E c \in World : SpawnOf(c) = 1 /\ ExplicitEmpty(c) /\ InRange(c)

\* C5 (range check): a click is answered "too far" exactly when the clicked
\* address is more than INTERACTION_RANGE away from the player's cell on at
\* least one axis, whatever the holding and the cell hold.
C5_TooFarIff ==
  [][\A c \in World :
       handleCellClick(c)
       => (statusPanel' = "tooFar" <=> Distance(c) > INTERACTION_RANGE)]_vars

\* both corners have been collected from, which the player can do only from
\* exactly INTERACTION_RANGE cells away, and a click one cell further was
\* answered "too far"
C5_Witness ==
  /\ statusPanel = "tooFar"
  /\ ExplicitEmpty(<<-4, -4>>)
  /\ ExplicitEmpty(<<3, 3>>)
  /\ \E c \in World : Distance(c) = INTERACTION_RANGE + 1

\* C6 (out of range): an out-of-range click changes neither the holding, the
\* store and its addresses, the player position nor the win status, and it
\* reports the too-far message.
C6_TooFarNoChange ==
  [][\A c \in World :
       (~InRange(c) /\ handleCellClick(c))
       => /\ UNCHANGED <<playerToken, cellContents, playerLatLng, movement, gameWon>>
          /\ DOMAIN cellContents' = DOMAIN cellContents
          /\ statusPanel' = "tooFar"]_vars

\* a too-far click was answered while a token was held and a token lay in
\* a cell out of range on one axis only
C6_Witness ==
  /\ statusPanel = "tooFar"
  /\ playerToken # NULL
  /\ \E c \in World :
       /\ EffectiveContent(c) = playerToken
       /\ ~InRange(c)
       /\ \/ Abs(c[1] - getCellId(playerLatLng)[1]) <= INTERACTION_RANGE
          \/ Abs(c[2] - getCellId(playerLatLng)[2]) <= INTERACTION_RANGE

\* C7 (reject): an in-range click made while the player holds a token and the
\* cell holds a token of another value, or while both are empty, leaves the
\* holding and the store unchanged and records no override.
C7_RejectNoChange ==
  [][\A c \in World :
       (/\ InRange(c)
        /\ \/ playerToken # NULL /\ EffectiveContent(c) # NULL
              /\ EffectiveContent(c) # playerToken
           \/ playerToken = NULL /\ EffectiveContent(c) = NULL
        /\ handleCellClick(c))
       => /\ UNCHANGED <<playerToken, cellContents>>
          /\ Overridden(c)' <=> Overridden(c)]_vars

\* a click was rejected while a token of value 2 was held and a cell in
\* range, never acted on, held its spawned token of value 1
C7_Witness ==
  /\ statusPanel = "cannot"
  /\ playerToken = 2
  /\ \E c \in World : ~Overridden(c) /\ SpawnOf(c) = 1 /\ InRange(c)

\* a button step, a geolocation update or a map scroll
MoveStep ==
  \/ btnNorth \/ btnSouth \/ btnEast \/ btnWest
  \/ mapMoveEnd
  \/ \E p \in GeoFeed : watchPosition(p)

\* C8 (movement and rendering): a button step, a geolocation update or a
\* redraw leaves the store and the holding as they were, and every override
\* in the redrawn window is drawn with its recorded content.
C8_MoveKeepsStore ==
  [][MoveStep
     => /\ UNCHANGED <<cellContents, playerToken>>
        /\ \A c \in DOMAIN gridLayer' :
             Overridden(c) => gridLayer'[c].token = cellContents[c]]_vars

\* a crafted token of value 2 lies in a corner the player has moved out of
\* range of, and it is drawn there
C8_Witness ==
  /\ playerLatLng # StartLatLng
  /\ \E c \in World :
       /\ Overridden(c) /\ cellContents[c] = 2
       /\ ~InRange(c)
       /\ c \in DOMAIN gridLayer /\ gridLayer[c].token = 2 /\ ~gridLayer[c].nearby

\* C9 (store): the store starts empty and a step adds exactly the address of
\* a successful collect, craft or place and removes none; clicks that are
\* rejected and cells that are only drawn add no address.
C9_StoreAddresses ==
  /\ cellContents = <<>>
  /\ [][DOMAIN cellContents' =
          DOMAIN cellContents \cup
            {c \in World : statusPanel' \in Success /\ handleCellClick(c)}]_vars

\* three addresses were acted on, a click was then rejected, and two cells
\* of the drawn window have no entry
C9_Witness ==
  /\ Cardinality(DOMAIN cellContents) = 3
  /\ statusPanel \in {"cannot", "tooFar"}
  /\ Cardinality(DOMAIN gridLayer \ DOMAIN cellContents) = 2

\* C10 (virtual default): a cell with no override, which by C9 is a cell no
\* collect, craft or place has succeeded on, is drawn with the answer of the
\* spawn function and is given that answer by the click handler.
C10_DefaultIsSpawn ==
  \A c \in World \ DOMAIN cellContents :
    /\ c \in DOMAIN gridLayer => gridLayer[c].token = SpawnOf(c)
    /\ cellTokenOf(cellContents, c) = SpawnOf(c)

\* after four addresses were acted on and the player has moved, the one
\* untouched cell is the one whose hash equals the threshold
C10_Witness ==
  /\ Cardinality(DOMAIN cellContents) = 4
  /\ playerLatLng # StartLatLng
  /\ \E c \in World \ DOMAIN cellContents :
       luck(c[1], c[2]) = INITIAL_TOKEN_PROBABILITY /\ gridLayer[c].token = NULL

\* C11 (no eviction): an address recorded in the store is recorded in it
\* after every step, whether a move, a redraw, a click or a mode switch.
C11_NeverEvicted ==
  [][\A c \in World : Overridden(c) => Overridden(c)']_vars

\* four addresses are recorded, one of them explicitly empty and out of
\* range, after the movement mode was switched to geolocation and the feed
\* has moved the player
C11_Witness ==
  /\ Cardinality(DOMAIN cellContents) = 4
  /\ \E c \in World : ExplicitEmpty(c) /\ ~InRange(c)
  /\ movement.kind = "geolocation"
  /\ storedMode = "geolocation"
  /\ playerLatLng # StartLatLng

\* C12 (holding lifecycle): the hand goes from empty to a token only by a
\* collect, from a token to empty only by a craft or a place, and a step
\* taken while a token is held never leaves another token in the hand.
C12_HoldingLifecycle ==
  [][/\ (playerToken = NULL /\ playerToken' # NULL)
          => \E c \in World :
               /\ statusPanel' = "collected"
               /\ playerToken' = EffectiveContent(c)
               /\ handleCellClick(c)
     /\ (playerToken # NULL /\ playerToken' = NULL)
          => \E c \in World :
               /\ statusPanel' \in {"crafted", "placed"}
               /\ EffectiveContent(c)' \in {playerToken, 2 * playerToken}
               /\ handleCellClick(c)
     /\ playerToken # NULL => playerToken' \in {playerToken, NULL}]_vars

\* every token of the world has been collected and crafted away into one
\* token of value 4, which was collected last and is the one token held
C12_Witness ==
  /\ playerToken = 4
  /\ inventory = 4
  /\ statusPanel = "collected"
  /\ \A c \in World : EffectiveContent(c) = NULL

\* C13 (win condition): whenever the held token's value is at least
\* WIN_VALUE the victory status is set.
C13_WinWhenHeld ==
  (playerToken # NULL /\ playerToken >= WIN_VALUE) => gameWon

\* the token of value WIN_VALUE has just been collected and the victory
\* status is set
C13_Witness ==
  /\ statusPanel = "collected"
  /\ playerToken = WIN_VALUE
  /\ inventory = WIN_VALUE
  /\ gameWon

\* C14 (sticky win): once the victory status is set it is set after every
\* step, also when the winning token leaves the hand.
C14_WinSticky ==
  [][gameWon => gameWon']_vars

\* the winning token has been placed into a cell, the hand is empty and the
\* victory status is still set
C14_Witness ==
  /\ gameWon
  /\ playerToken = NULL
  /\ statusPanel = "placed"
  /\ \E c \in World : Overridden(c) /\ cellContents[c] = WIN_VALUE

\* C15 (victory on craft), as claimed: right after a craft that produces a
\* token of value at least WIN_VALUE the victory status is set.
C15_VictoryOnCraft ==
  [][\A c \in World :
       (/\ playerToken # NULL
        /\ InRange(c)
        /\ EffectiveContent(c) = playerToken
        /\ 2 * playerToken >= WIN_VALUE
        /\ handleCellClick(c))
       => gameWon']_vars

\* any load of the page after the first
Reloaded == \E paramMode \in Params : reload(paramMode, TRUE)

\* C16 (persistence round trip), as claimed: what the session has persisted,
\* read back by the next load of the page, gives a state with the same
\* holding, the same player position and the same effective content for
\* every address.
C16_RoundTrip ==
  [][Reloaded =>
       /\ playerToken' = playerToken
       /\ playerLatLng' = playerLatLng
       /\ \A c \in World : EffectiveContent(c)' = EffectiveContent(c)]_vars

\* C17 (auto-save and restore), as claimed: the game state is saved after
\* every mutating action, so the session started by a reload has the holding,
\* position and override store the session had after its last action.
C17_SavedAfterEveryAction ==
  [][Reloaded =>
       /\ inventory' = inventory
       /\ movement'.pos = movement.pos
       /\ DOMAIN cellContents' = DOMAIN cellContents
       /\ \A c \in DOMAIN cellContents : cellContents'[c] = cellContents[c]]_vars

\* C18 (new game), as claimed: from every reachable state one operation of
\* the page resets the session to the freshly initialized state: empty
\* override store, empty holding, default starting position.
C18_NewGameResets ==
  ENABLED (/\ Next
           /\ cellContents' = <<>>
           /\ playerToken' = NULL
           /\ playerLatLng' = StartLatLng)

\* the mode applyInitialMovementMode chooses: the URL parameter when present
\* and non-empty, otherwise the persisted mode, otherwise "buttons"
ChosenMode(paramMode) ==
  IF paramMode # "" THEN paramMode
  ELSE IF storedMode # "" THEN storedMode
  ELSE "buttons"

C20_ErrorKeepsState ==
  [][watchError =>
       /\ UNCHANGED <<playerLatLng, playerToken, cellContents>>
       /\ UNCHANGED <<movement, watching, gridLayer, inventory, statusPanel>>
       /\ watching' /\ movement'.kind = "geolocation"]_vars

\* after a failure was reported, a position update has moved the player and a
\* click has collected a token
C20_Witness ==
  /\ consoleWarned
  /\ watching
  /\ movement.kind = "geolocation"
  /\ playerLatLng \in GeoFeed \ {StartLatLng}
  /\ statusPanel = "collected"
  /\ playerToken # NULL

\* the messages of the game itself, by class
GameMessages == {"welcome", "tooFar", "collected", "crafted", "placed", "cannot"}

\* C21 (failure is surfaced), as claimed: when the geolocation source reports
\* an error the user-visible status changes to a message describing the
\* failure, that is, to a message that is none of the game's own.
C21_ErrorSurfaced ==
  [][watchError =>
       (statusPanel' # statusPanel /\ statusPanel' \notin GameMessages)]_vars

\* C22 (write failure is not fatal): when the write of the movement mode
\* fails, setMovementMode still installs the implementation for the requested
\* mode at the same position, with the watch registered exactly for
\* geolocation, and holding, position and override store are unchanged; the
\* stored mode stays what it was.
C22_WriteFailureNotFatal ==
  [][\A mode \in Modes :
       setMovementMode(mode, FALSE) =>
         /\ movement'.kind =
              IF mode = "geolocation" /\ hasGeo THEN "geolocation" ELSE "buttons"
         /\ movement'.pos = movement.pos
         /\ watching' = (movement'.kind = "geolocation")
         /\ storedMode' = storedMode
         /\ UNCHANGED <<playerToken, playerLatLng, cellContents>>]_vars

\* geolocation is active and watching although the stored mode still says
\* buttons: the switch took effect, its write did not; play went on
C22_Witness ==
  /\ storedMode = "buttons"
  /\ movement.kind = "geolocation"
  /\ watching
  /\ playerLatLng # StartLatLng
  /\ playerToken # NULL

\* C23 (read failure is not fatal), as claimed: also when reading the saved
\* movement mode fails or returns nothing, startup completes: the page shows
\* one of the game's messages and the grid is drawn.
C23_StartupCompletes ==
  statusPanel \in GameMessages /\ DOMAIN gridLayer # {}

\* C24: the coordinate mapper agrees with its inverse: a position inside
\* getCellBounds(i, j), lower edges included, has the cell id (i, j).  Checked
\* on the south-west corner of the bounds, the position where both lower
\* edges meet, in the program's double arithmetic.
C24_CornerMapsToOwnCell ==
  pos64.cornerOf # <<>> => pos64.cell = pos64.cornerOf

\* C25 (a click affects only the clicked address): for every address other
\* than the clicked one, the override (presence and value) and the effective
\* content are the same after the click as before, and the click changes
\* neither the player position nor the active movement.
C25_ClickIsLocal ==
  [][\A c \in World :
       handleCellClick(c) =>
         /\ \A d \in World \ {c} :
              /\ Overridden(d)' = Overridden(d)
              /\ Overridden(d) => cellContents'[d] = cellContents[d]
              /\ EffectiveContent(d)' = EffectiveContent(d)
         /\ UNCHANGED <<playerLatLng, movement>>]_vars

\* three addresses carry overrides of three kinds (a crafted token, a placed
\* token of value 1 and an explicit empty) right after a craft
C25_Witness ==
  /\ statusPanel = "crafted"
  /\ \E c \in World : Overridden(c) /\ cellContents[c] = 2
  /\ \E c \in World : Overridden(c) /\ cellContents[c] = 1
  /\ \E c \in World : ExplicitEmpty(c)

\* C26 (no stale position): the position the range check of a click reads is
\* always the most recent one a position source delivered; every delivery
\* (button step or feed update) replaces it, and a click is rejected as too
\* far exactly when the clicked cell is more than INTERACTION_RANGE cells, on
\* either axis, from the cell of that position.
C26_RangeUsesCurrentPosition ==
  [][/\ movement.pos = playerLatLng
     /\ \A p \in GeoFeed : watchPosition(p) => (movement'.pos = p /\ playerLatLng' = p)
     /\ MoveStep => movement'.pos = playerLatLng'
     /\ \A c \in World :
          handleCellClick(c) =>
            LET cell == getCellId(playerLatLng)
            IN (statusPanel' = "tooFar") <=>
                 (Abs(c[1] - cell[1]) > INTERACTION_RANGE
                    \/ Abs(c[2] - cell[2]) > INTERACTION_RANGE)]_vars

\* the far corner was in range when its token was collected and is too far
\* now that the player is back in the row of the start
C26_Witness ==
  /\ ExplicitEmpty(<<-4, -4>>)
  /\ playerToken = 1
  /\ statusPanel = "tooFar"
  /\ getCellId(playerLatLng)[1] = 0

\* C27 (switching the mode mid-session): a switch of the movement mode leaves
\* the position where it was (the new source reports the position the old
\* one had, which is the player's position), and holding, win status and
\* override store are unchanged.
C27_SwitchPreservesSession ==
  [][\A mode \in Modes :
       setMovementMode(mode, TRUE) =>
         /\ movement'.pos = movement.pos
         /\ movement'.pos = playerLatLng'
         /\ UNCHANGED <<playerLatLng, playerToken, inventory, gameWon,
                        cellContents>>]_vars

\* button movement is active at a position only the geolocation feed delivers
\* (so the mode was switched there), the game is won and the winning token
\* is held
C27_Witness ==
  /\ movement.kind = "buttons"
  /\ playerLatLng = <<MinPos, MinPos>>
  /\ movement.pos = <<MinPos, MinPos>>
  /\ gameWon
  /\ playerToken = WIN_VALUE

\* the transition table of an in-range click: holding, content of the cell
\* and message after the click, from holding and content before it
TableOutcome(c) ==
  LET held == playerToken
      content == EffectiveContent(c)
  IN IF held = NULL /\ content # NULL
       THEN playerToken' = content /\ EffectiveContent(c)' = NULL
            /\ statusPanel' = "collected"
     ELSE IF held # NULL /\ content = held
       THEN playerToken' = NULL /\ EffectiveContent(c)' = 2 * held
            /\ statusPanel' = "crafted"
     ELSE IF held # NULL /\ content = NULL
       THEN playerToken' = NULL /\ EffectiveContent(c)' = held
            /\ statusPanel' = "placed"
     ELSE playerToken' = held /\ EffectiveContent(c)' = content
          /\ statusPanel' = "cannot"

\* C28 (the win is non-blocking): once the win status is set, every drawn
\* cell still takes clicks, the mode can still be switched and the active
\* position source still delivers positions; an in-range click still follows
\* the collect / craft / place / reject table.
C28_WinNonBlocking ==
  /\ [](gameWon =>
          /\ \A c \in DOMAIN gridLayer : ENABLED handleCellClick(c)
          /\ \A mode \in Modes : ENABLED setMovementMode(mode, TRUE)
          /\ ENABLED (btnNorth \/ btnSouth \/ btnEast \/ btnWest)
          /\ watching => \A p \in GeoFeed : ENABLED watchPosition(p))
  /\ [][gameWon =>
          \A c \in World :
            (InRange(c) /\ handleCellClick(c)) => TableOutcome(c)]_vars

\* after the win the winning token was placed and a token of value 1 was
\* collected from a cell reached by moving
C28_Witness ==
  /\ gameWon
  /\ statusPanel = "collected"
  /\ playerToken = 1
  /\ \E c \in World : Overridden(c) /\ cellContents[c] = WIN_VALUE
  /\ playerLatLng # StartLatLng

\* 1, 2, 4, 8, ...
RECURSIVE IsPowerOfTwo(_)
IsPowerOfTwo(n) ==
  IF n = 1 THEN TRUE
  ELSE IF n < 1 \/ n % 2 = 1 THEN FALSE
  ELSE IsPowerOfTwo(n \div 2)

\* C29: in buttons mode a press of a direction button changes the player's
\* cell id by exactly one on the button's axis (north/south on i, east/west
\* on j) and leaves the other axis alone, in the program's double arithmetic.
C29_PressMovesOneCell ==
  [][/\ btnNorth64 => pos64'.cell = <<pos64.cell[1] + 1, pos64.cell[2]>>
     /\ btnSouth64 => pos64'.cell = <<pos64.cell[1] - 1, pos64.cell[2]>>
     /\ btnEast64 => pos64'.cell = <<pos64.cell[1], pos64.cell[2] + 1>>
     /\ btnWest64 => pos64'.cell = <<pos64.cell[1], pos64.cell[2] - 1>>]_vars

\* C30 (token values): every token, held by the player, recorded in the
\* override store, returned by the spawn function or drawn on the grid, has
\* a power of two as its value.
C30_PowersOfTwo ==
  /\ playerToken # NULL => IsPowerOfTwo(playerToken)
  /\ \A c \in DOMAIN cellContents :
       cellContents[c] # NULL => IsPowerOfTwo(cellContents[c])
  /\ \A c \in World :
       getInitialCellToken(c[1], c[2]) # NULL
         => IsPowerOfTwo(getInitialCellToken(c[1], c[2]))
  /\ \A c \in DOMAIN gridLayer :
       gridLayer[c].token # NULL => IsPowerOfTwo(gridLayer[c].token)

\* all four spawned tokens have been crafted into one token of value 4, which
\* lies in a cell; a cell between holds nothing
C30_Witness ==
  /\ playerToken = NULL
  /\ \E c \in World : Overridden(c) /\ cellContents[c] = 4
  /\ \E c \in World : ExplicitEmpty(c) /\ SpawnOf(c) = 1
  /\ statusPanel = "crafted"

\* C31: the persisted movement mode names the active implementation: after
\* setMovementMode(mode) with a successful write, the geolocation
\* implementation is active exactly when the value stored under
\* "movementMode" is "geolocation", with or without platform geolocation.
C31_StoredModeNamesActive ==
  [][(\E mode \in Modes : setMovementMode(mode, TRUE))
       => (movement'.kind = "geolocation" <=> storedMode' = "geolocation")]_vars

\* C32: exactly one position source moves the player.  At most one
\* geolocation watch is registered, and none while the buttons implementation
\* is active; every change of the player position comes from the active
\* implementation: from the feed while geolocation is active (button presses
\* change nothing then), from a direction button otherwise (no feed update
\* arrives after the switch away from geolocation).
C32_OneSourceMoves ==
  /\ [](watches <= 1 /\ (movement.kind # "geolocation" => watches = 0))
  /\ [][/\ (\E p \in GeoFeed : watchPosition(p)) => movement.kind = "geolocation"
        /\ playerLatLng' # playerLatLng =>
             IF movement.kind = "geolocation"
               THEN \E p \in GeoFeed : watchPosition(p)
               ELSE btnNorth \/ btnSouth \/ btnEast \/ btnWest]_vars

\* the feed moved the player off the grid of button positions, and the mode
\* was then switched to buttons, which stopped the watch
C32_Witness ==
  /\ hasGeo
  /\ movement.kind = "buttons"
  /\ watches = 0
  /\ playerLatLng \in GeoFeed
  /\ playerLatLng[1] % TILE_DEGREES # StartLatLng[1] % TILE_DEGREES

\* the value of a token, 0 for no token
TokenValue(t) == IF t = NULL THEN 0 ELSE t

\* the sum of the values of the tokens the cells of region R hold under the
\* store cc
RECURSIVE RegionValue(_, _)
RegionValue(cc, R) ==
  IF R = {} THEN 0
  ELSE LET c == CHOOSE x \in R : TRUE
       IN TokenValue(cellTokenOf(cc, c)) + RegionValue(cc, R \ {c})

\* the number of cells of region R that hold a token under the store cc
RegionTokens(cc, R) == Cardinality({c \in R : cellTokenOf(cc, c) # NULL})

Held(t) == IF t = NULL THEN 0 ELSE 1

\* the cells the step can be a click on
Clicked == {c \in World : handleCellClick(c)}

\* the step changes the store or the hand
TokensChange == cellContents' # cellContents \/ playerToken' # playerToken

\* C33 as stated: token value is conserved.  For every region that holds
\* every clicked cell, the values in its cells plus the value in the hand
\* are the same after a step as before it, and the number of tokens in the
\* region's cells does not increase.
C33_ValueConserved ==
  [][TokensChange =>
       \A clicked \in {Clicked} :
          \A R \in SUBSET World :
            clicked \subseteq R =>
              /\ RegionValue(cellContents', R) + TokenValue(playerToken')
                   = RegionValue(cellContents, R) + TokenValue(playerToken)
              /\ RegionTokens(cellContents', R)
                   <= RegionTokens(cellContents, R)]_vars

\* C33 as amended: the values in the region's cells plus the value in the
\* hand are conserved, and the number of tokens in the region's cells plus
\* the one in the hand does not increase (a place moves the held token into
\* the region).
C33_ValueConservedWithHand ==
  [][TokensChange =>
       \A clicked \in {Clicked} :
          \A R \in SUBSET World :
            clicked \subseteq R =>
              /\ RegionValue(cellContents', R) + TokenValue(playerToken')
                   = RegionValue(cellContents, R) + TokenValue(playerToken)
              /\ RegionTokens(cellContents', R) + Held(playerToken')
                   <= RegionTokens(cellContents, R) + Held(playerToken)]_vars

\* a craft has merged two tokens: the world holds the value it started with
\* in fewer tokens
C33_Witness ==
  /\ statusPanel = "crafted"
  /\ RegionValue(cellContents, World) + TokenValue(playerToken)
       = RegionValue(<<>>, World)
  /\ RegionTokens(cellContents, World) + Held(playerToken)
       < RegionTokens(<<>>, World)

TypeOK ==
  /\ playerToken \in Nat
  /\ DOMAIN cellContents \subseteq World
  /\ playerLatLng \in Positions

====
